---- MODULE Spec2Model ----
(***************************************************************************)
(* Model of the serialization support of src/src/support/serial.c:         *)
(* __wt_session_serialize_func (schedule a serialized function and block   *)
(* until it completes) and __wt_session_serialize_wrapup (publish the      *)
(* result and wake the caller).                                            *)
(*                                                                         *)
(* Every session is one thread.  A call of __wt_session_serialize_func is  *)
(* a frame on that thread's call stack; a function that makes a nested     *)
(* WT_SERIAL_REENTER call pushes a second frame.  The eviction server is   *)
(* one more thread; it runs __wt_session_serialize_wrapup for the requests *)
(* that an eviction function left with it.                                 *)
(***************************************************************************)
EXTENDS Naturals, Sequences, FiniteSets

(* The bound of the model: the number of top-level serialize calls made. *)
MaxCalls == 2

(* Two sessions, that is two calling threads, and a page for each. *)
Sessions == {1, 2}
Pages == Sessions
NoPage == 0
NoArgs == <<NoPage, 0>>
Server == 0
Threads == Sessions \cup {Server}
NoOwner == 0

(* wq_state_t *)
WT_SERIAL_NONE == "NONE"
WT_SERIAL_FUNC == "FUNC"
WT_SERIAL_EVICT == "EVICT"
WT_SERIAL_REENTER == "REENTER"

(* Result codes a function passes to wrapup: success and the error 5. *)
Codes == {0, 5}
(* Return values of __wt_page_set_modified: success or an allocation error. *)
SetModifiedRets == {0, 12}
(* Return values of __wt_eviction_page_check: success or an error. *)
PageCheckRets == {0, 16}
(* What the two calls of lines 75-76 may return, as pairs: every outcome,   *)
(* and the outcomes in which the eviction check succeeds.                   *)
Outcomes == SetModifiedRets \X PageCheckRets
MarkOutcomes == SetModifiedRets \X {0}

VARIABLES
    stack,          \* per session: the frames of its serialize calls, outermost first
    wq_args,        \* session->wq_args
    wq_sleeping,    \* session->wq_sleeping
    wq_state,       \* session->wq_state
    wq_ret,         \* session->wq_ret
    cond,           \* session->cond: TRUE when signalled and not yet consumed
    serial_lock,    \* conn->serial_lock: the owning session, or NoOwner
    modified,       \* per page: the modified flag
    write_gen,      \* per page: the write generation
    mutations,      \* per page: the structural mutations functions have made to it
    seen,           \* per page: what a reader that holds no lock has read of it
    wr,             \* per thread: the wrapup call it is executing
    evict_queue,    \* requests left with the eviction server
    ncalls,         \* number of top-level serialize calls started so far
    lastop,         \* per session: the kind of its top-level call that returned last
    nlock           \* per session: lock acquisitions, releases in the current top-level call

vars == <<stack, wq_args, wq_sleeping, wq_state, wq_ret, cond, serial_lock,
          modified, write_gen, mutations, seen, wr, evict_queue, ncalls,
          lastop, nlock>>

(* The pages, and what their readers have read. *)
pagevars == <<modified, write_gen, mutations, seen>>

----------------------------------------------------------------------------
(* The conditions of the code. *)

(* Variants of the conditions with a plausible slip; used to show that the  *)
(* properties below depend on the conditions of the code.                   *)
NeedsLockEvictOnly(o) == o = WT_SERIAL_EVICT
NeedsLockAlways(o) == TRUE
SleepingForNotFunc(o) == o # WT_SERIAL_FUNC
NeedsUnlockFuncOnly(o) == o = WT_SERIAL_FUNC
NeedsLockFuncOnly(o) == o = WT_SERIAL_FUNC
WakesServerAlways(o) == TRUE
MustWaitNever(s) == FALSE
MustWaitAlways(s) == TRUE
MustWaitUnlessSignalled(s) == wq_sleeping[s] /\ ~cond[s]
MustSignalNever(s) == FALSE
MustSignalAlways(s) == TRUE
MustSignalUnlessSleeping(s) == ~wq_sleeping[s]
MarksPageOnError(ret, pg) == pg # NoPage
MarksPageInverted(ret, pg) == ret # 0 /\ pg # NoPage
WrapupRetIgnoresSetModified(ret, pg, r, k) == ret
WrapupRetKeepsPageCheck(ret, pg, r, k) == IF ret = 0 /\ pg # NoPage /\ r = 0 THEN k ELSE ret

(* serial.c:36: the spinlock is taken unless re-entering. *)
NeedsLock(o) == o # WT_SERIAL_REENTER

(* serial.c:41: the spinlock is released unless re-entering. *)
NeedsUnlock(o) == o # WT_SERIAL_REENTER

(* serial.c:33: the session sleeps iff the operation is an eviction. *)
SleepingFor(o) == o = WT_SERIAL_EVICT

(* serial.c:44-50: the eviction server is woken for an eviction. *)
WakesServer(o) == o = WT_SERIAL_EVICT

(* serial.c:57: wait on the condition variable if the session sleeps. *)
MustWait(s) == wq_sleeping[s]

(* serial.c:59: the value returned. *)
ReturnValue(s) == wq_ret[s]

(* serial.c:69: the page is marked when the return is OK and a page is passed. *)
MarksPage(ret, pg) == ret = 0 /\ pg # NoPage

(* serial.c:69-80: the value stored in wq_ret, r being what                 *)
(* __wt_page_set_modified returned and k what __wt_eviction_page_check      *)
(* returned, which line 76 drops.                                           *)
WrapupRet(ret, pg, r, k) == IF MarksPage(ret, pg) THEN r ELSE ret

(* serial.c:94: the caller is signalled if the session sleeps. *)
MustSignal(s) == wq_sleeping[s]

----------------------------------------------------------------------------
(* Frames. *)

Depth(s) == Len(stack[s])
Idle(s) == stack[s] = <<>>
Top(s) == stack[s][Len(stack[s])]

NoWrapup == [step |-> "none", sess |-> 0, d |-> 0, page |-> NoPage, code |-> 0,
             ret |-> 0, smr |-> <<>>, chk |-> <<>>]

(* A new frame: the operation and the page its arguments name, the         *)
(* position in the code, and what has happened in this cycle so far: wg0 is *)
(* the write generation of the page when the call was made, fn what the     *)
(* function turned out to do ("sync": it called the wrapup itself; "defer": *)
(* it left the request with the eviction server; "nest": it first made a    *)
(* nested re-entrant call), page and code the arguments the wrapup of this  *)
(* cycle was called with, setmod what __wt_page_set_modified returned to    *)
(* it, cmpl and pub record line 80 of that wrapup and ncmpl counts its      *)
(* executions, nonepub records line 91, sigs its __wt_cond_signal calls,    *)
(* wakes the __wt_evict_server_wake calls, waited the __wt_cond_wait, mut   *)
(* that the function has made its structural mutation of the page.          *)
NewFrame(o, a) ==
    [op |-> o, args |-> a, wg0 |-> write_gen[a], pc |-> "l36", fn |-> "none",
     page |-> NoPage, code |-> 0, called |-> FALSE, setmod |-> <<>>,
     cmpl |-> FALSE, pub |-> <<>>, sigs |-> 0, wakes |-> 0, waited |-> FALSE,
     ncmpl |-> 0, nonepub |-> FALSE, mut |-> FALSE]

SetTop(s, f) == [stack EXCEPT ![s] = [@ EXCEPT ![Len(@)] = f]]
SetTopPc(s, p) == SetTop(s, [Top(s) EXCEPT !.pc = p])

(* What the wrapup of the call of session s at depth d is recorded to have *)
(* done.                                                                    *)
Record(st, s, d, f(_)) ==
    IF d <= Len(st[s])
    THEN [st EXCEPT ![s][d] = f(@)]
    ELSE st

TypeOK ==
    /\ \A s \in Sessions : Depth(s) <= 2
    /\ wq_sleeping \in [Sessions -> BOOLEAN]
    /\ wq_ret \in [Sessions -> Codes \cup SetModifiedRets]
    /\ serial_lock \in Sessions \cup {NoOwner}
    /\ ncalls \in 0 .. MaxCalls

Init ==
    /\ stack = [s \in Sessions |-> <<>>]
    /\ wq_args = [s \in Sessions |-> NoArgs]
    /\ wq_sleeping = [s \in Sessions |-> FALSE]
    /\ wq_state = [s \in Sessions |-> WT_SERIAL_NONE]
    /\ wq_ret = [s \in Sessions |-> 0]
    /\ cond = [s \in Sessions |-> FALSE]
    /\ serial_lock = NoOwner
    /\ modified = [p \in Pages |-> FALSE]
    /\ write_gen = [p \in Pages |-> 0]
    /\ mutations = [p \in Pages |-> 0]
    /\ seen = [p \in Pages |-> <<>>]
    /\ wr = [t \in Threads |-> NoWrapup]
    /\ evict_queue = {}
    /\ ncalls = 0
    /\ lastop = [s \in Sessions |-> WT_SERIAL_NONE]
    /\ nlock = [s \in Sessions |-> <<0, 0>>]

----------------------------------------------------------------------------
(* __wt_session_serialize_wrapup, serial.c:66-96, run by thread t for the   *)
(* call of session s at depth d.                                            *)

(* serial.c:69-77, the return OK and a page passed: __wt_page_set_modified, *)
(* which returns r and has marked the page if r is 0, and                   *)
(* __wt_eviction_page_check, which returns k (chk), a value that is         *)
(* dropped.                                                                 *)
WrapupPage(t, s, d, pg, ret, r, k) ==
    /\ wr[t].step = "none"
    /\ MarksPage(ret, pg)
    /\ IF r = 0
       THEN /\ modified' = [modified EXCEPT ![pg] = TRUE]
            /\ write_gen' = [write_gen EXCEPT ![pg] = @ + 1]
       ELSE UNCHANGED <<modified, write_gen>>
    /\ UNCHANGED <<mutations, seen>>
    /\ wr' = [wr EXCEPT ![t] = [step |-> "w80", sess |-> s, d |-> d, page |-> pg,
                                code |-> ret, ret |-> WrapupRet(ret, pg, r, k),
                                smr |-> <<r>>, chk |-> <<k>>]]

(* serial.c:69, the return not OK or no page passed. *)
WrapupNoPage(t, s, d, pg, ret) ==
    /\ wr[t].step = "none"
    /\ ~MarksPage(ret, pg)
    /\ wr' = [wr EXCEPT ![t] = [step |-> "w80", sess |-> s, d |-> d, page |-> pg,
                                code |-> ret, ret |-> WrapupRet(ret, pg, 0, 0),
                                smr |-> <<>>, chk |-> <<>>]]
    /\ UNCHANGED pagevars

(* serial.c:69-77, Rs being what __wt_page_set_modified and                 *)
(* __wt_eviction_page_check may return.                                     *)
WrapupEnter(t, s, d, pg, ret, Rs) ==
    \/ \E o \in Rs : WrapupPage(t, s, d, pg, ret, o[1], o[2])
    \/ WrapupNoPage(t, s, d, pg, ret)

(* A variant of line 80 with a plausible slip: the store of the return     *)
(* value is left out of its place before the publish.                       *)
WrapupSetRetOmitted(t) ==
    /\ wr[t].step = "w80"
    /\ LET done(f) == [f EXCEPT !.cmpl = TRUE, !.pub = <<wr[t].ret>>,
                                !.setmod = wr[t].smr, !.ncmpl = @ + 1]
       IN stack' = Record(stack, wr[t].sess, wr[t].d, done)
    /\ wr' = [wr EXCEPT ![t].step = "w91"]
    /\ UNCHANGED <<wq_args, wq_sleeping, wq_state, wq_ret, cond, serial_lock, pagevars,
                   evict_queue, ncalls, lastop, nlock>>

(* serial.c:80: set the return value. *)
WrapupSetRet(t) ==
    /\ wr[t].step = "w80"
    /\ wq_ret' = [wq_ret EXCEPT ![wr[t].sess] = wr[t].ret]
    /\ LET done(f) == [f EXCEPT !.cmpl = TRUE, !.pub = <<wr[t].ret>>,
                                !.setmod = wr[t].smr, !.ncmpl = @ + 1]
       IN stack' = Record(stack, wr[t].sess, wr[t].d, done)
    /\ wr' = [wr EXCEPT ![t].step = "w91"]
    /\ UNCHANGED <<wq_args, wq_sleeping, wq_state, cond, serial_lock, pagevars,
                   evict_queue, ncalls, lastop, nlock>>

(* serial.c:91: WT_PUBLISH(session->wq_state, WT_SERIAL_NONE). *)
WrapupPublish(t) ==
    /\ wr[t].step = "w91"
    /\ wq_state' = [wq_state EXCEPT ![wr[t].sess] = WT_SERIAL_NONE]
    /\ LET none(f) == [f EXCEPT !.nonepub = TRUE]
       IN stack' = Record(stack, wr[t].sess, wr[t].d, none)
    /\ wr' = [wr EXCEPT ![t].step = "w94"]
    /\ UNCHANGED <<wq_args, wq_sleeping, wq_ret, cond, serial_lock, pagevars,
                   evict_queue, ncalls, lastop, nlock>>

(* serial.c:94-96: __wt_cond_signal if the calling thread is sleeping, and  *)
(* the return: into the function, which returns in turn (serial.c:39), or   *)
(* into the eviction server.                                                *)
WrapupSignal(t) ==
    /\ wr[t].step = "w94"
    /\ LET s == wr[t].sess
           sig(f) == [f EXCEPT !.sigs = @ + 1]
           st == IF MustSignal(s) THEN Record(stack, s, wr[t].d, sig) ELSE stack
       IN /\ cond' = IF MustSignal(s) THEN [cond EXCEPT ![s] = TRUE] ELSE cond
          /\ stack' = IF t = Server THEN st
                      ELSE [st EXCEPT ![t][Len(st[t])].pc = "l41"]
    /\ wr' = [wr EXCEPT ![t] = NoWrapup]
    /\ UNCHANGED <<wq_args, wq_sleeping, wq_state, wq_ret, serial_lock, pagevars,
                   evict_queue, ncalls, lastop, nlock>>

----------------------------------------------------------------------------
(* __wt_session_serialize_func, serial.c:18-60. *)

(* serial.c:32-33 of a call with arguments a. *)
Enter(s, o, a) ==
    /\ wq_args' = [wq_args EXCEPT ![s] = a]
    /\ wq_sleeping' = [wq_sleeping EXCEPT ![s] = SleepingFor(o)]

(* A call made by an idle session, with arguments that name page pg. *)
Serialize(s, o, pg) ==
    /\ Idle(s)
    /\ ncalls < MaxCalls
    /\ ncalls' = ncalls + 1
    /\ stack' = [stack EXCEPT ![s] = <<NewFrame(o, pg)>>]
    /\ Enter(s, o, <<pg, 1>>)
    /\ nlock' = [nlock EXCEPT ![s] = <<0, 0>>]
    /\ UNCHANGED <<wq_state, wq_ret, cond, serial_lock, pagevars, wr, evict_queue, lastop>>

(* serial.c:36-37: __wt_spin_lock, which returns once the lock is free. *)
SpinLock(s) ==
    /\ ~Idle(s)
    /\ Top(s).pc = "l36"
    /\ IF NeedsLock(Top(s).op)
       THEN /\ serial_lock = NoOwner
            /\ serial_lock' = s
            /\ nlock' = [nlock EXCEPT ![s][1] = @ + 1]
       ELSE UNCHANGED <<serial_lock, nlock>>
    /\ stack' = SetTopPc(s, "l39")
    /\ UNCHANGED <<wq_args, wq_sleeping, wq_state, wq_ret, cond, pagevars, wr,
                   evict_queue, ncalls, lastop>>

(* The page argument of the wrapup: the page of the call, or NULL. *)
PageOrNull(s, wp) == IF wp THEN Top(s).args ELSE NoPage

(* serial.c:39: a function calls __wt_session_serialize_wrapup(session,     *)
(* page or NULL, c) itself, as the last thing it does; a function that made *)
(* a nested call does so when that call has returned.                       *)
FuncSync(s, wp, c, Rs) ==
    /\ ~Idle(s)
    /\ Top(s).pc \in {"l39", "fafter", "fmut"}
    /\ WrapupEnter(s, s, Depth(s), PageOrNull(s, wp), c, Rs)
    /\ stack' = SetTop(s, [Top(s) EXCEPT !.pc = "fwrap", !.page = PageOrNull(s, wp),
                                         !.code = c, !.called = TRUE,
                                         !.fn = IF @ = "none" THEN "sync" ELSE @])
    /\ UNCHANGED <<wq_args, wq_sleeping, wq_state, wq_ret, cond, serial_lock,
                   evict_queue, ncalls, lastop, nlock>>

(* serial.c:39: an eviction function leaves its request with the eviction   *)
(* server, which calls the wrapup with (page or NULL, c) when it has done   *)
(* the work.                                                                *)
FuncDefer(s, wp, c) ==
    /\ ~Idle(s)
    /\ Top(s).pc \in {"l39", "fmut", "fafter"}
    /\ Top(s).op = WT_SERIAL_EVICT
    /\ evict_queue' = evict_queue \cup
           {[sess |-> s, page |-> PageOrNull(s, wp), ret |-> c]}
    /\ stack' = SetTop(s, [Top(s) EXCEPT !.pc = "l41", !.page = PageOrNull(s, wp),
                                         !.code = c,
                                         !.fn = IF @ = "none" THEN "defer" ELSE @])
    /\ UNCHANGED <<wq_args, wq_sleeping, wq_state, wq_ret, cond, serial_lock,
                   pagevars, wr, ncalls, lastop, nlock>>

(* serial.c:39: the function makes a nested WT_SERIAL_REENTER call on its   *)
(* session; this is serial.c:32-33 of the nested call.                      *)
NestedCall(s) ==
    /\ ~Idle(s)
    /\ Top(s).pc = "l39"
    /\ Top(s).op # WT_SERIAL_REENTER
    /\ stack' = [stack EXCEPT ![s] =
           Append([@ EXCEPT ![Len(@)].pc = "fnest", ![Len(@)].fn = "nest"],
                  NewFrame(WT_SERIAL_REENTER, Top(s).args))]
    /\ Enter(s, WT_SERIAL_REENTER, <<Top(s).args, Depth(s) + 1>>)
    /\ UNCHANGED <<wq_state, wq_ret, cond, serial_lock, pagevars, wr, evict_queue,
                   ncalls, lastop, nlock>>

(* A nested call made by the function of a WT_SERIAL_FUNC call. *)
FuncNest(s) ==
    /\ ~Idle(s)
    /\ Top(s).op = WT_SERIAL_FUNC
    /\ NestedCall(s)

(* A nested call made by the function of a WT_SERIAL_EVICT call. *)
EvictNest(s) ==
    /\ ~Idle(s)
    /\ Top(s).op = WT_SERIAL_EVICT
    /\ NestedCall(s)

(* serial.c:39: the function makes its structural mutation of the page its *)
(* arguments name, before it completes.                                     *)
FuncMutate(s) ==
    /\ ~Idle(s)
    /\ Top(s).pc = "l39"
    /\ mutations' = [mutations EXCEPT ![Top(s).args] = @ + 1]
    /\ stack' = SetTop(s, [Top(s) EXCEPT !.pc = "fmut", !.mut = TRUE])
    /\ UNCHANGED <<wq_args, wq_sleeping, wq_state, wq_ret, cond, serial_lock,
                   modified, write_gen, seen, wr, evict_queue, ncalls, lastop, nlock>>

(* serial.c:41-42: __wt_spin_unlock. *)
SpinUnlock(s) ==
    /\ ~Idle(s)
    /\ Top(s).pc = "l41"
    /\ IF NeedsUnlock(Top(s).op)
       THEN /\ serial_lock' = NoOwner
            /\ nlock' = [nlock EXCEPT ![s][2] = @ + 1]
       ELSE UNCHANGED <<serial_lock, nlock>>
    /\ stack' = SetTopPc(s, "l44")
    /\ UNCHANGED <<wq_args, wq_sleeping, wq_state, wq_ret, cond, pagevars, wr,
                   evict_queue, ncalls, lastop>>

(* serial.c:44-57: __wt_evict_server_wake for an eviction (wakes), and the *)
(* test of wq_sleeping, which no other thread writes.                       *)
EvictServerWake(s) ==
    /\ ~Idle(s)
    /\ Top(s).pc = "l44"
    /\ stack' = SetTop(s, [Top(s) EXCEPT
                   !.pc = IF MustWait(s) THEN "l58" ELSE "l59",
                   !.wakes = IF WakesServer(Top(s).op) THEN @ + 1 ELSE @])
    /\ UNCHANGED <<wq_args, wq_sleeping, wq_state, wq_ret, cond, serial_lock,
                   pagevars, wr, evict_queue, ncalls, lastop, nlock>>

(* serial.c:58: __wt_cond_wait returns once the condition variable has been *)
(* signalled, and consumes the signal.                                      *)
CondWait(s) ==
    /\ ~Idle(s)
    /\ Top(s).pc = "l58"
    /\ cond[s]
    /\ cond' = [cond EXCEPT ![s] = FALSE]
    /\ stack' = SetTop(s, [Top(s) EXCEPT !.pc = "l59", !.waited = TRUE])
    /\ UNCHANGED <<wq_args, wq_sleeping, wq_state, wq_ret, serial_lock, pagevars,
                   wr, evict_queue, ncalls, lastop, nlock>>

(* serial.c:59: return wq_ret; a nested call returns into the function that *)
(* made it.                                                                 *)
Return(s) ==
    /\ ~Idle(s)
    /\ Top(s).pc = "l59"
    /\ lastop' = IF Depth(s) = 1 THEN [lastop EXCEPT ![s] = Top(s).op] ELSE lastop
    /\ stack' = [stack EXCEPT ![s] =
           IF Len(@) = 1 THEN <<>>
           ELSE [SubSeq(@, 1, Len(@) - 1) EXCEPT ![Len(@) - 1].pc = "fafter"]]
    /\ UNCHANGED <<wq_args, wq_sleeping, wq_state, wq_ret, cond, serial_lock,
                   pagevars, wr, evict_queue, ncalls, nlock>>

----------------------------------------------------------------------------
(* The eviction server. *)

(* The server takes a request and, the work done, calls the wrapup. *)
ServerTake(q, Rs) ==
    /\ q \in evict_queue
    /\ evict_queue' = evict_queue \ {q}
    /\ WrapupEnter(Server, q.sess, 1, q.page, q.ret, Rs)
    /\ LET call(f) == [f EXCEPT !.called = TRUE]
       IN stack' = Record(stack, q.sess, 1, call)
    /\ UNCHANGED <<wq_args, wq_sleeping, wq_state, wq_ret, cond, serial_lock,
                   ncalls, lastop, nlock>>

----------------------------------------------------------------------------
(* A reader of page p that holds no lock: it reads the write generation,    *)
(* and then the content of the page.                                        *)
ReadGen(p) ==
    /\ seen[p] = <<>>
    /\ seen' = [seen EXCEPT ![p] = <<write_gen[p]>>]
    /\ UNCHANGED <<stack, wq_args, wq_sleeping, wq_state, wq_ret, cond, serial_lock,
                   modified, write_gen, mutations, wr, evict_queue, ncalls, lastop,
                   nlock>>

ReadContent(p) ==
    /\ Len(seen[p]) = 1
    /\ seen' = [seen EXCEPT ![p] = <<seen[p][1], mutations[p]>>]
    /\ UNCHANGED <<stack, wq_args, wq_sleeping, wq_state, wq_ret, cond, serial_lock,
                   modified, write_gen, mutations, wr, evict_queue, ncalls, lastop,
                   nlock>>

----------------------------------------------------------------------------
(* The specification: every call names the one page SharedPage; the        *)
(* eviction check, whose return value is dropped, succeeds.                 *)
SharedPage == CHOOSE p \in Pages : \A q \in Pages : p <= q

Wrapup(t) ==
    \/ WrapupSetRet(t)
    \/ WrapupPublish(t)
    \/ WrapupSignal(t)

SessionStep(s) ==
    \/ SpinLock(s)
    \/ \E wp \in BOOLEAN, c \in Codes : FuncSync(s, wp, c, MarkOutcomes)
    \/ \E wp \in BOOLEAN, c \in Codes : FuncDefer(s, wp, c)
    \/ FuncNest(s)
    \/ SpinUnlock(s)
    \/ EvictServerWake(s)
    \/ CondWait(s)
    \/ Return(s)
    \/ Wrapup(s)

ServerStep ==
    \/ \E q \in evict_queue : ServerTake(q, MarkOutcomes)
    \/ Wrapup(Server)

Next ==
    \/ \E s \in Sessions, o \in {WT_SERIAL_FUNC, WT_SERIAL_EVICT} :
          Serialize(s, o, SharedPage)
    \/ \E s \in Sessions : SessionStep(s)
    \/ ServerStep

Spec == Init /\ [][Next]_vars

(* Fair scheduling: every thread that can take a step eventually takes one. *)
Fairness ==
    /\ \A s \in Sessions : WF_vars(SessionStep(s))
    /\ WF_vars(ServerStep)

FairSpec == Spec /\ Fairness

(* The scenario of concurrent evictions on distinct pages: every session    *)
(* calls serialize with WT_SERIAL_EVICT on its own page, with a function    *)
(* that marks the page and completes with success, by itself or through the *)
(* eviction server.                                                         *)
OwnPage(s) == s

EvictSessionStep(s) ==
    \/ SpinLock(s)
    \/ FuncSync(s, TRUE, 0, {<<0, 0>>})
    \/ FuncDefer(s, TRUE, 0)
    \/ SpinUnlock(s)
    \/ EvictServerWake(s)
    \/ CondWait(s)
    \/ Return(s)
    \/ Wrapup(s)

EvictServerStep ==
    \/ \E q \in evict_queue : ServerTake(q, {<<0, 0>>})
    \/ Wrapup(Server)

NextEvict ==
    \/ \E s \in Sessions : Serialize(s, WT_SERIAL_EVICT, OwnPage(s))
    \/ \E s \in Sessions : EvictSessionStep(s)
    \/ EvictServerStep

SpecEvict ==
    /\ Init
    /\ [][NextEvict]_vars
    /\ \A s \in Sessions : WF_vars(EvictSessionStep(s))
    /\ WF_vars(EvictServerStep)

(* The scenario of wrapups whose eviction check may fail: calls of both    *)
(* kinds on one page, completed with any code, with or without the page, by *)
(* the function or by the eviction server.                                  *)
CheckSessionStep(s) ==
    \/ SpinLock(s)
    \/ \E wp \in BOOLEAN, c \in Codes : FuncSync(s, wp, c, Outcomes)
    \/ \E wp \in BOOLEAN, c \in Codes : FuncDefer(s, wp, c)
    \/ SpinUnlock(s)
    \/ EvictServerWake(s)
    \/ CondWait(s)
    \/ Return(s)
    \/ Wrapup(s)

CheckServerStep ==
    \/ \E q \in evict_queue : ServerTake(q, Outcomes)
    \/ Wrapup(Server)

NextCheck ==
    \/ \E s \in Sessions, o \in {WT_SERIAL_FUNC, WT_SERIAL_EVICT} :
          Serialize(s, o, SharedPage)
    \/ \E s \in Sessions : CheckSessionStep(s)
    \/ CheckServerStep

SpecCheck == Init /\ [][NextCheck]_vars

(* The scenario of writers and a reader of one page: a function either      *)
(* makes its mutation of the page and completes with success and the page,  *)
(* by itself or through the eviction server, or fails with 5 before it has  *)
(* changed the page; a reader reads the page while they run.                *)
ReaderSessionStep(s) ==
    \/ SpinLock(s)
    \/ FuncMutate(s)
    \/ ~Idle(s) /\ Top(s).pc = "fmut" /\ FuncSync(s, TRUE, 0, MarkOutcomes)
    \/ ~Idle(s) /\ Top(s).pc = "fmut" /\ FuncDefer(s, TRUE, 0)
    \/ ~Idle(s) /\ Top(s).pc = "l39" /\ FuncSync(s, TRUE, 5, MarkOutcomes)
    \/ SpinUnlock(s)
    \/ EvictServerWake(s)
    \/ CondWait(s)
    \/ Return(s)
    \/ Wrapup(s)

NextReader ==
    \/ \E s \in Sessions, o \in {WT_SERIAL_FUNC, WT_SERIAL_EVICT} :
          Serialize(s, o, SharedPage)
    \/ \E s \in Sessions : ReaderSessionStep(s)
    \/ ServerStep
    \/ ReadGen(SharedPage)
    \/ ReadContent(SharedPage)

SpecReader == Init /\ [][NextReader]_vars

(* The scenario of evictions whose function may make a nested re-entrant   *)
(* call before it completes, by itself or through the eviction server.      *)
NestEvictSessionStep(s) ==
    \/ SpinLock(s)
    \/ EvictNest(s)
    \/ \E wp \in BOOLEAN, c \in Codes : FuncSync(s, wp, c, MarkOutcomes)
    \/ \E wp \in BOOLEAN, c \in Codes : FuncDefer(s, wp, c)
    \/ SpinUnlock(s)
    \/ EvictServerWake(s)
    \/ CondWait(s)
    \/ Return(s)
    \/ Wrapup(s)

NextNestEvict ==
    \/ \E s \in Sessions : Serialize(s, WT_SERIAL_EVICT, SharedPage)
    \/ \E s \in Sessions : NestEvictSessionStep(s)
    \/ ServerStep

SpecNestEvict == Init /\ [][NextNestEvict]_vars

(* The scenario of a function that breaks the protocol: the function of an  *)
(* eviction calls __wt_session_serialize_wrapup(session, page or NULL, c)   *)
(* itself and also leaves the request with the eviction server, which calls *)
(* the wrapup for the same cycle a second time.                             *)
FuncSyncAndDefer(s, wp, c, Rs) ==
    /\ ~Idle(s)
    /\ Top(s).pc = "l39"
    /\ Top(s).op = WT_SERIAL_EVICT
    /\ WrapupEnter(s, s, Depth(s), PageOrNull(s, wp), c, Rs)
    /\ evict_queue' = evict_queue \cup
           {[sess |-> s, page |-> PageOrNull(s, wp), ret |-> c]}
    /\ stack' = SetTop(s, [Top(s) EXCEPT !.pc = "fwrap", !.page = PageOrNull(s, wp),
                                         !.code = c, !.called = TRUE,
                                         !.fn = "sync"])
    /\ UNCHANGED <<wq_args, wq_sleeping, wq_state, wq_ret, cond, serial_lock,
                   ncalls, lastop, nlock>>

MisuseSessionStep(s) ==
    \/ SpinLock(s)
    \/ \E wp \in BOOLEAN, c \in Codes : FuncSyncAndDefer(s, wp, c, MarkOutcomes)
    \/ SpinUnlock(s)
    \/ EvictServerWake(s)
    \/ CondWait(s)
    \/ Return(s)
    \/ Wrapup(s)

NextMisuse ==
    \/ \E s \in Sessions : Serialize(s, WT_SERIAL_EVICT, SharedPage)
    \/ \E s \in Sessions : MisuseSessionStep(s)
    \/ ServerStep

SpecMisuse == Init /\ [][NextMisuse]_vars

----------------------------------------------------------------------------
(* Properties. *)

Frames(s) == {stack[s][k] : k \in 1 .. Len(stack[s])}
AtReturn(s) == ~Idle(s) /\ Top(s).pc = "l59"

(* The session's thread is executing a function that it entered through a  *)
(* call that is not re-entrant: its outermost call is between the call of   *)
(* the function and the function's return.                                  *)
InFunction(s) ==
    /\ ~Idle(s)
    /\ stack[s][1].op # WT_SERIAL_REENTER
    /\ stack[s][1].pc \in {"l39", "fwrap", "fnest", "fafter"}

(* C1: at most one thread at a time executes a function entered through a   *)
(* serialize call that is not re-entrant.                                   *)
C1_MutualExclusion ==
    \A s1, s2 \in Sessions : InFunction(s1) /\ InFunction(s2) => s1 = s2

(* One thread is in its function while another spins for the lock. *)
C1_Witness ==
    \E s1, s2 \in Sessions :
        /\ s1 # s2
        /\ InFunction(s1)
        /\ ~Idle(s2) /\ Top(s2).pc = "l36" /\ Top(s2).op # WT_SERIAL_REENTER

C3_EveryCallReturns ==
    \A s \in Sessions : (~Idle(s)) ~> Idle(s)

(* The wrapup has signalled the condition variable of a caller that has not *)
(* yet reached its wait.                                                    *)
C3_Witness ==
    \E s \in Sessions :
        /\ ~Idle(s) /\ Top(s).pc \in {"l41", "l44"} /\ Top(s).fn = "defer"
        /\ cond[s] /\ Top(s).sigs = 1

Published(f) == IF f.code = 0 /\ f.page # NoPage THEN f.setmod ELSE <<f.code>>

EntersWithoutPage(t) ==
    /\ wr[t].step = "none"
    /\ wr'[t].step = "w80"
    /\ wr'[t].code # 0 \/ wr'[t].page = NoPage

C7_ConcurrentEvictions ==
    /\ [](\A s \in Sessions :
              AtReturn(s) =>
                  /\ ReturnValue(s) = 0
                  /\ modified[Top(s).args]
                  /\ write_gen[Top(s).args] = Top(s).wg0 + 1)
    /\ [][\A p \in Pages : write_gen'[p] >= write_gen[p]]_vars
    /\ \A s \in Sessions : (~Idle(s)) ~> Idle(s)

(* All the sessions are about to return from concurrent evictions, each     *)
(* with its own page marked.                                                *)
C7_Witness ==
    \A s \in Sessions :
        /\ AtReturn(s) /\ Top(s).op = WT_SERIAL_EVICT /\ Top(s).args = OwnPage(s)
        /\ modified[OwnPage(s)] /\ write_gen[OwnPage(s)] = 1

(* C8: while a nested WT_SERIAL_REENTER call is in progress, and when it    *)
(* has returned into the function, the lock is held by the calling thread,  *)
(* which has acquired it once and not released it; the nested call does not *)
(* wait for the lock; when the outer call has left the lock behind it has   *)
(* released it once.                                                        *)
C8_ReentrantSafe ==
    \A s \in Sessions :
        /\ Depth(s) = 2 =>
               /\ Top(s).op = WT_SERIAL_REENTER
               /\ serial_lock = s
               /\ nlock[s] = <<1, 0>>
               /\ Top(s).pc = "l36" => ENABLED SpinLock(s)
        /\ Depth(s) = 1 /\ Top(s).fn = "nest" /\ Top(s).pc \in {"fafter", "fwrap", "l41"} =>
               serial_lock = s /\ nlock[s] = <<1, 0>>
        /\ Depth(s) = 1 /\ Top(s).fn = "nest" /\ Top(s).pc \in {"l44", "l58", "l59"} =>
               serial_lock # s /\ nlock[s] = <<1, 1>>

(* A nested re-entrant call has returned into the function, which still     *)
(* holds the lock.                                                          *)
C8_Witness ==
    \E s \in Sessions :
        /\ Depth(s) = 1 /\ Top(s).fn = "nest" /\ Top(s).pc = "fafter"
        /\ serial_lock = s

(* The session's last top-level call has returned. *)
CycleDone(s) == Idle(s) /\ lastop[s] # WT_SERIAL_NONE

C10_OnlyEvictionWaits ==
    \A s \in Sessions :
        ~Idle(s) =>
            /\ Top(s).pc = "l58" => Top(s).op = WT_SERIAL_EVICT /\ wq_sleeping[s]
            /\ Top(s).op # WT_SERIAL_EVICT => ~Top(s).waited
            /\ Top(s).pc \notin {"l36", "l58"} => ENABLED SessionStep(s)

(* An eviction is blocked in its wait while a call of another kind is about *)
(* to return without having waited.                                         *)
C10_Witness ==
    \E s1, s2 \in Sessions :
        /\ ~Idle(s1) /\ Top(s1).pc = "l58" /\ ~cond[s1]
        /\ AtReturn(s2) /\ Top(s2).op = WT_SERIAL_FUNC /\ ~Top(s2).waited

(* C11, as claimed: a second invocation of the wrapup for one cycle is      *)
(* detected and stopped before line 80 stores a result again, so no cycle   *)
(* has its result stored more than once.                                    *)
C11_MisuseIsFatal ==
    \A s \in Sessions : \A f \in Frames(s) : f.ncmpl <= 1

NestedReturned(s) ==
    Depth(s) = 1 /\ Top(s).fn = "nest" /\ Top(s).pc # "fnest"

(* C14, as claimed: when a nested re-entrant call has returned, the pending *)
(* arguments and the sleeping mark of the session are those the outer call  *)
(* stored, and an outer eviction returns only after it has waited for the   *)
(* signal of its own wrapup.                                                *)
C14_NestedKeepsOuterState ==
    \A s \in Sessions :
        NestedReturned(s) =>
            /\ wq_args[s] = <<Top(s).args, 1>>
            /\ wq_sleeping[s] = SleepingFor(Top(s).op)
            /\ Top(s).pc = "l59" /\ Top(s).op = WT_SERIAL_EVICT =>
                   Top(s).cmpl /\ Top(s).waited /\ Top(s).sigs = 1

C16_WakesServerOnce ==
    \A s \in Sessions : \A f \in Frames(s) :
        /\ f.wakes <= 1
        /\ f.wakes = 1 => f.op = WT_SERIAL_EVICT /\ f.pc \in {"l58", "l59"}
        /\ f.pc \in {"l58", "l59"} =>
               f.wakes = IF f.op = WT_SERIAL_EVICT THEN 1 ELSE 0
        /\ f.waited => f.wakes = 1
        /\ f.op = WT_SERIAL_EVICT /\ (f.pc = "l44" \/ f.wakes = 1) =>
               serial_lock # s /\ nlock[s] = <<1, 1>>

(* An eviction has woken the server and not yet waited, while a call of     *)
(* another kind is about to return without having woken it.                 *)
C16_Witness ==
    \E s1, s2 \in Sessions :
        /\ ~Idle(s1) /\ Top(s1).op = WT_SERIAL_EVICT /\ Top(s1).pc = "l58"
        /\ Top(s1).wakes = 1 /\ ~Top(s1).waited
        /\ AtReturn(s2) /\ Top(s2).op = WT_SERIAL_FUNC /\ Top(s2).wakes = 0

(* The wrapup was passed success and a page. *)
PassedPage(w) == w.code = 0 /\ w.page # NoPage

(* C17: the wrapup calls the marking of the page and the eviction check     *)
(* exactly when it was passed success and a page; the page is then modified *)
(* if the marking returned success; and the result it is to store is        *)
(* what the marking returned, or the code passed, whatever the eviction     *)
(* check returned.                                                          *)
C17_MarksAndChecksOnSuccess ==
    /\ \A t \in Threads :
           wr[t].step # "none" =>
               /\ wr[t].smr # <<>> <=> PassedPage(wr[t])
               /\ wr[t].chk # <<>> <=> PassedPage(wr[t])
               /\ wr[t].smr = <<0>> => modified[wr[t].page]
               /\ <<wr[t].ret>> = IF PassedPage(wr[t]) THEN wr[t].smr
                                  ELSE <<wr[t].code>>
    /\ \A s \in Sessions : \A f \in Frames(s) :
           f.cmpl => (f.setmod # <<>> <=> PassedPage(f))

(* A wrapup passed success and a page has marked the page, and its eviction *)
(* check has returned an error; the result it is to store is success.       *)
C17_Witness ==
    \E t \in Threads :
        /\ wr[t].step = "w80" /\ PassedPage(wr[t])
        /\ wr[t].smr = <<0>> /\ wr[t].chk = <<16>> /\ wr[t].ret = 0
        /\ modified[wr[t].page]

(* C18: a thread at the wait of line 58 does not hold the lock, and a call  *)
(* that is not re-entrant has released the lock, once, when it wakes the    *)
(* eviction server and when it waits; the lock is then free or held by      *)
(* another session.                                                         *)
C18_NoWaitUnderLock ==
    \A s \in Sessions :
        ~Idle(s) =>
            /\ Top(s).pc = "l58" => serial_lock # s
            /\ Top(s).op # WT_SERIAL_REENTER /\ Top(s).pc \in {"l44", "l58", "l59"} =>
                   serial_lock # s /\ nlock[s] = <<1, 1>>
            /\ Top(s).wakes = 1 \/ Top(s).waited => serial_lock # s

(* An eviction is blocked at its wait while the other session holds the     *)
(* lock and runs its function.                                              *)
C18_Witness ==
    \E s1, s2 \in Sessions :
        /\ ~Idle(s1) /\ Top(s1).pc = "l58" /\ ~cond[s1]
        /\ serial_lock = s2 /\ InFunction(s2)

InAnyFunction(s) ==
    \E f \in Frames(s) : f.pc \in {"l39", "fmut", "fwrap", "fnest", "fafter"}

(* C20: the lock is held by session s exactly while the outermost call of   *)
(* s, which is not re-entrant, is between its acquire and its release; a    *)
(* function runs only while its thread holds the lock; acquisitions and     *)
(* releases are balanced; the lock is free when every call has returned.    *)
C20_LockBalanced ==
    /\ \A s \in Sessions :
           serial_lock = s <=>
               /\ ~Idle(s)
               /\ stack[s][1].op # WT_SERIAL_REENTER
               /\ stack[s][1].pc \in {"l39", "fmut", "fwrap", "fnest", "fafter", "l41"}
    /\ \A s \in Sessions : InAnyFunction(s) => serial_lock = s
    /\ \A s \in Sessions :
           /\ nlock[s][2] <= nlock[s][1] /\ nlock[s][1] <= 1
           /\ (serial_lock = s) <=> (nlock[s][1] = nlock[s][2] + 1)
    /\ (\A s \in Sessions : Idle(s)) => serial_lock = NoOwner

(* Every call has returned, one of them an eviction and one of another      *)
(* kind, and the lock is free.                                              *)
C20_Witness ==
    /\ \A s \in Sessions : CycleDone(s) /\ nlock[s] = <<1, 1>>
    /\ \E s1, s2 \in Sessions :
           lastop[s1] = WT_SERIAL_EVICT /\ lastop[s2] = WT_SERIAL_FUNC
    /\ serial_lock = NoOwner

====
